---- MODULE Spec2Model ----
(***************************************************************************)
(* Model of the UPSC test generator (index.tsx): the test library, the     *)
(* test-attempt state machine (startTest, saveCurrentAnswer,               *)
(* navigateToQuestion, the attempt-view button handlers, the timer,        *)
(* handleSubmitTest) and the bulk-import parser (parseManualQuestions).    *)
(*                                                                         *)
(* Conventions                                                             *)
(*  - JavaScript null is the integer null (-1): TLC cannot compare an      *)
(*    integer with a value of another type.                                *)
(*  - marksPerQuestion and negativeMarking are JavaScript floats; they are *)
(*    held as integer numbers of 1/MarkDen marks.  A score percentage is   *)
(*    the exact fraction <<numerator, denominator>> in lowest terms.       *)
(*  - Test.duration is a float number of minutes; it is held as the        *)
(*    fraction <<numerator, denominator>> of a minute.                     *)
(*  - Date.now() is only ever used as the difference                       *)
(*    Date.now() - questionStartTime; the variable sinceQuestionStart is   *)
(*    that difference in seconds, and "questionStartTime = Date.now()" is  *)
(*    sinceQuestionStart' = 0.                                             *)
(*  - The checked radio button of the attempt view (the DOM state read by  *)
(*    saveCurrentAnswer) is the variable selectedOption.                   *)
(***************************************************************************)
EXTENDS Integers, Sequences, FiniteSets, TLC

\* ---------------------------------------------------------------- bounds
MaxQuestions == 2      \* most questions in a test of the library
MaxSeconds == 2        \* longest test duration, in seconds
MaxTests == 1          \* most tests in the library
MaxDialogWait == 1     \* longest time the abandon dialog stays open, in seconds
MaxClock == 2          \* wall-clock seconds an attempt may last (dialogs included)
MaxOptionIndex == 1    \* largest option index a question of the library offers
ScoreMaxQuestions == 10  \* most questions of a scored attempt (SpecScore)
MaxBlocks == 2         \* most question blocks of a bulk-import text (SpecParse)
MaxAttempts == 2       \* most attempts stored in one session (SpecSession)
MaxLines == 5          \* most lines of a pasted text (SpecText)
MaxRequests == 2       \* most AI requests of one session (SpecGenerate)
ReviewQuestions == 3   \* questions of the test attempted in SpecReview
MaxStems == 2          \* question lines of the texts of SpecAnswer

\* ------------------------------------------------------- program constants
null == -1
TimerHandle == 1
MarkDen == 2
SecondsPerMinute == 60
DefaultMarks == 1
DefaultNegative == 0

VARIABLES
    tests,                \* localStorage 'tests'
    performanceHistory,   \* localStorage 'performanceHistory'
    currentTest,
    currentQuestionIndex,
    userAnswers,
    questionStatuses,
    timerInterval,
    timeRemaining,
    timePerQuestion,
    sinceQuestionStart,
    selectedOption,
    view,
    toast,                \* type of the toast the last handler showed ("none": no toast)
    fault,                \* an exception escaped the last handler
    idClock,
    manualText,           \* argument of parseManualQuestions
    parsedQuestions,      \* its result
    aiRequests            \* calls of ai.models.generateContent so far

attemptVars == <<currentTest, currentQuestionIndex, userAnswers, questionStatuses,
                 timerInterval, timeRemaining, timePerQuestion, sinceQuestionStart,
                 selectedOption>>
parserVars == <<manualText, parsedQuestions, aiRequests>>
vars == <<tests, performanceHistory, attemptVars, view, toast, fault,
          idClock, parserVars>>

\* ------------------------------------------------------------ JS helpers
undefined == -2

Statuses == {"notVisited", "notAnswered", "answered", "marked", "markedAndAnswered"}

\* a[i] of a JavaScript array (0-based); hole (undefined) past the end
GetOr(a, i, hole) == IF i >= 0 /\ i < Len(a) THEN a[i + 1] ELSE hole

\* a[i] = v on a JavaScript array: a write at or past the end extends the array
ArraySetOr(a, i, v, hole) ==
    IF i < Len(a) THEN [a EXCEPT ![i + 1] = v]
    ELSE a \o [k \in 1..(i - Len(a)) |-> hole] \o <<v>>

\* arrays of numbers (userAnswers, timePerQuestion)
Get(a, i) == GetOr(a, i, undefined)
ArraySet(a, i, v) == ArraySetOr(a, i, v, undefined)

\* arrays of statuses (questionStatuses)
GetStatus(a, i) == GetOr(a, i, "undefined")
SetStatus(a, i, v) == ArraySetOr(a, i, v, "undefined")

\* Array(n).fill(v)
ArrayFill(n, v) == [k \in 1..n |-> v]

RECURSIVE SumSeq(_)
SumSeq(a) == IF a = <<>> THEN 0 ELSE Head(a) + SumSeq(Tail(a))

RECURSIVE GCD(_, _)
GCD(a, b) == IF b = 0 THEN a ELSE GCD(b, a % b)

\* the fraction n/d (d > 0) in lowest terms
Frac(n, d) ==
    LET g == GCD(IF n < 0 THEN -n ELSE n, d)
    IN  IF g = 0 THEN <<0, 1>> ELSE <<n \div g, d \div g>>

\* "currentTest = null"
nullTest == [isNull |-> TRUE]

\* test.duration * 60, in seconds
DurationSeconds(test) == (test.duration[1] * SecondsPerMinute) \div test.duration[2]

\* ------------------------------------------------ the tests a file can hold
\* the k-th question of a test file: NumOptions options, correct option Key(k)
NumOptions == MaxOptionIndex + 1
Key(k) == (k - 1) % NumOptions
Questions(n) == [k \in 1..n |-> [answer |-> Key(k), options |-> NumOptions]]

\* a JSON test file: n questions, duration d, and the marking scheme
\* m = <<marksPerQuestion, negativeMarking>> in 1/MarkDen marks
TestFile(n, d, m) ==
    [questions |-> Questions(n), duration |-> d,
     marksPerQuestion |-> m[1], negativeMarking |-> m[2]]

\* the test files uploaded: one without questions, one of duration 0, one whose
\* marks are 0, and one with 1 mark per question and 1/2 mark off per wrong answer
TestFiles ==
    {TestFile(0, <<MaxSeconds, SecondsPerMinute>>, <<MarkDen, 1>>),
     TestFile(MaxQuestions, <<0, SecondsPerMinute>>, <<MarkDen, 1>>),
     TestFile(MaxQuestions, <<MaxSeconds, SecondsPerMinute>>, <<0, 0>>),
     TestFile(MaxQuestions, <<MaxSeconds, SecondsPerMinute>>, <<MarkDen, 1>>)}

\* ------------------------------------------------------ saveCurrentAnswer
\* the answers array after saveCurrentAnswer with the radio selection sel
\* mutant: the radio selection is not written to userAnswers
SavedAnswers_NotSaved(ua, idx, sel) == ua

SavedAnswers(ua, idx, sel) == ArraySet(ua, idx, sel)

\* the status saveCurrentAnswer gives the current question
\* mutant: without an answer the status is notAnswered whatever it was
SavedStatus_ResetsMark(currentStatus, answer) ==
    IF answer # null
    THEN IF currentStatus = "marked" \/ currentStatus = "markedAndAnswered"
         THEN "markedAndAnswered" ELSE "answered"
    ELSE "notAnswered"

SavedStatus(currentStatus, answer) ==
    IF answer # null
    THEN IF currentStatus = "marked" \/ currentStatus = "markedAndAnswered"
         THEN "markedAndAnswered" ELSE "answered"
    ELSE IF currentStatus # "marked" /\ currentStatus # "markedAndAnswered"
         THEN "notAnswered" ELSE currentStatus

SavedStatuses(qs, idx, sel) == SetStatus(qs, idx, SavedStatus(GetStatus(qs, idx), sel))

\* ---------------------------------------------------------------- scoring
QuestionIndexes(test) == 0..(Len(test.questions) - 1)

UnansweredSet(test, ua) == {i \in QuestionIndexes(test) : Get(ua, i) = null}

CorrectSet(test, ua) ==
    {i \in QuestionIndexes(test) :
        Get(ua, i) # null /\ Get(ua, i) = test.questions[i + 1].answer}

\* mutant: the incorrect branch loses its "else" and also counts null answers
IncorrectSet_NoElse(test, ua) ==
    {i \in QuestionIndexes(test) : Get(ua, i) # test.questions[i + 1].answer}

IncorrectSet(test, ua) ==
    {i \in QuestionIndexes(test) :
        Get(ua, i) # null /\ Get(ua, i) # test.questions[i + 1].answer}

\* currentTest.marksPerQuestion || 1
MarksPerQ(test) ==
    IF test.marksPerQuestion = 0 THEN DefaultMarks * MarkDen ELSE test.marksPerQuestion

\* currentTest.negativeMarking || 0
NegMark(test) ==
    IF test.negativeMarking = 0 THEN DefaultNegative * MarkDen ELSE test.negativeMarking

\* mutant: wrong answers cost nothing
RawScore_NoNegative(test, ua) ==
    Cardinality(CorrectSet(test, ua)) * MarksPerQ(test)

RawScore(test, ua) ==
    Cardinality(CorrectSet(test, ua)) * MarksPerQ(test)
        - Cardinality(IncorrectSet(test, ua)) * NegMark(test)

TotalMaxScore(test) == Len(test.questions) * MarksPerQ(test)

\* mutant: the percentage without Math.max(0, ...)
ScorePercentage_NoFloor(test, ua) ==
    IF TotalMaxScore(test) > 0
    THEN Frac(100 * RawScore(test, ua), TotalMaxScore(test))
    ELSE <<0, 1>>

\* Math.max(0, (rawScore / totalMaxScore) * 100), or 0 when totalMaxScore <= 0
ScorePercentage(test, ua) ==
    IF TotalMaxScore(test) > 0
    THEN IF RawScore(test, ua) < 0 THEN <<0, 1>>
         ELSE Frac(100 * RawScore(test, ua), TotalMaxScore(test))
    ELSE <<0, 1>>

\* the TestAttempt record handleSubmitTest builds
BuildAttempt(test, ua, tpq, remaining) ==
    [testId |-> test.id,
     userAnswers |-> ua,
     timeTaken |-> DurationSeconds(test) - remaining,
     timePerQuestion |-> tpq,
     score |-> ScorePercentage(test, ua),
     totalQuestions |-> Len(test.questions),
     correctAnswers |-> Cardinality(CorrectSet(test, ua)),
     incorrectAnswers |-> Cardinality(IncorrectSet(test, ua)),
     unanswered |-> Cardinality(UnansweredSet(test, ua)),
     fullTest |-> test]

\* ------------------------------------------------------------------- Init

Init ==
    /\ tests = <<>>
    /\ performanceHistory = <<>>
    /\ currentTest = nullTest
    /\ currentQuestionIndex = 0
    /\ userAnswers = <<>>
    /\ questionStatuses = <<>>
    /\ timerInterval = null
    /\ timeRemaining = 0
    /\ timePerQuestion = <<>>
    /\ sinceQuestionStart = 0
    /\ selectedOption = null
    /\ view = "main"
    /\ toast = "none"
    /\ fault = FALSE
    /\ idClock = 1
    /\ manualText = ""
    /\ parsedQuestions = <<>>
    /\ aiRequests = 0

\* ------------------------------------------------------------ the library
\* a test as the library stores it
StoredTest(file, id, marks, negative) ==
    [id |-> id, questions |-> file.questions, duration |-> file.duration,
     marksPerQuestion |-> marks, negativeMarking |-> negative]

\* handleImportTest: reader.onload on a valid test file
handleImportTest(file) ==
    /\ view = "allTests"
    /\ Len(tests) < MaxTests
    /\ tests' = <<StoredTest(file, idClock,
                     IF file.marksPerQuestion = 0 THEN DefaultMarks * MarkDen
                                                  ELSE file.marksPerQuestion,
                     IF file.negativeMarking = 0 THEN DefaultNegative * MarkDen
                                                 ELSE file.negativeMarking)>> \o tests
    /\ idClock' = idClock + 1
    /\ toast' = "success"
    /\ fault' = FALSE
    /\ UNCHANGED <<performanceHistory, attemptVars, view, parserVars>>

\* restoreFileInput change handler, single-test file, import confirmed
RestoreSingleTest(file) ==
    /\ view = "main"
    /\ Len(tests) < MaxTests
    /\ tests' = <<StoredTest(file, idClock, file.marksPerQuestion,
                             file.negativeMarking)>> \o tests
    /\ idClock' = idClock + 1
    /\ toast' = "success"
    /\ fault' = FALSE
    /\ UNCHANGED <<performanceHistory, attemptVars, view, parserVars>>

\* allTestsCard click handler: showView(allTestsView)
ShowAllTests ==
    /\ view = "main"
    /\ view' = "allTests"
    /\ fault' = FALSE
    /\ toast' = "none"
    /\ UNCHANGED <<tests, performanceHistory, attemptVars, idClock, parserVars>>

\* ---------------------------------------------------------------- startTest
\* mutant: startTest forgets questionStatuses[0] = 'notAnswered'
InitialStatuses_AllNotVisited(n) == ArrayFill(n, "notVisited")

\* questionStatuses as startTest builds it for n questions
InitialStatuses(n) == SetStatus(ArrayFill(n, "notVisited"), 0, "notAnswered")

startTest(test) ==
    LET n == Len(test.questions) IN
    /\ currentTest' = test
    /\ currentQuestionIndex' = 0
    /\ userAnswers' = ArrayFill(n, null)
    /\ questionStatuses' = InitialStatuses(n)
    /\ timeRemaining' = DurationSeconds(test)
    /\ timePerQuestion' = ArrayFill(n, 0)
    /\ sinceQuestionStart' = 0
    /\ IF n = 0
       THEN \* renderQuestionForAttempt reads q.question of an undefined q
            /\ fault' = TRUE
            /\ UNCHANGED <<selectedOption, timerInterval, view>>
       ELSE /\ fault' = FALSE
            /\ selectedOption' = null
            /\ timerInterval' = TimerHandle
            /\ view' = "attempt"

\* allTestsContainer click handler, .start-btn of the i-th listed test
StartFromList(i) ==
    /\ view = "allTests"
    /\ i \in 1..Len(tests)
    /\ startTest(tests[i])
    /\ toast' = "none"
    /\ UNCHANGED <<tests, performanceHistory, idClock, parserVars>>

\* ------------------------------------------------------ the attempt view
\* the radio button renderQuestionForAttempt checks for question idx
RenderedSelection(test, ua, idx) ==
    IF idx >= 0 /\ idx < Len(test.questions)
          /\ Get(ua, idx) \in 0..(test.questions[idx + 1].options - 1)
    THEN Get(ua, idx) ELSE null

\* timePerQuestion[idx] += timeSpent
AddTime(tpq, idx, timeSpent) == ArraySet(tpq, idx, Get(tpq, idx) + timeSpent)

\* the two navigation limits of navigateToQuestion
PastLast(newIndex, test) == newIndex >= Len(test.questions)
\* mutant: the lower navigation limit is missing
BeforeFirst_Never(newIndex) == FALSE

BeforeFirst(newIndex) == newIndex < 0

\* the statuses after the move to question newIndex: an unvisited question
\* becomes notAnswered
\* mutant: the incoming question becomes notAnswered whatever it was
VisitedStatuses_ResetsIncoming(qs, newIndex) == SetStatus(qs, newIndex, "notAnswered")

VisitedStatuses(qs, newIndex) ==
    IF GetStatus(qs, newIndex) = "notVisited"
    THEN SetStatus(qs, newIndex, "notAnswered") ELSE qs

\* navigateToQuestion(newIndex), called with the statuses array qs0
navigateToQuestion(newIndex, qs0) ==
    LET idx == currentQuestionIndex
        ua == SavedAnswers(userAnswers, idx, selectedOption)
        qs == SavedStatuses(qs0, idx, selectedOption)
    IN  /\ timePerQuestion' =
              IF currentTest # nullTest
              THEN AddTime(timePerQuestion, idx, sinceQuestionStart)
              ELSE timePerQuestion
        /\ userAnswers' = ua
        /\ UNCHANGED <<currentTest, timerInterval, timeRemaining>>
        /\ IF currentTest = nullTest
           THEN \* currentTest.questions of null throws
                /\ fault' = TRUE
                /\ questionStatuses' = qs
                /\ toast' = "none"
                /\ UNCHANGED <<currentQuestionIndex, sinceQuestionStart,
                               selectedOption>>
           ELSE IF PastLast(newIndex, currentTest)
           THEN /\ fault' = FALSE
                /\ questionStatuses' = qs
                /\ sinceQuestionStart' = 0
                /\ toast' = "info"
                /\ UNCHANGED <<currentQuestionIndex, selectedOption>>
           ELSE IF BeforeFirst(newIndex)
           THEN /\ fault' = FALSE
                /\ questionStatuses' = qs
                /\ sinceQuestionStart' = 0
                /\ toast' = "info"
                /\ UNCHANGED <<currentQuestionIndex, selectedOption>>
           ELSE /\ fault' = FALSE
                /\ currentQuestionIndex' = newIndex
                /\ sinceQuestionStart' = 0
                /\ questionStatuses' = VisitedStatuses(qs, newIndex)
                /\ selectedOption' = RenderedSelection(currentTest, ua, newIndex)
                /\ toast' = "none"

\* a radio button of the current question is clicked (or key 1..4 pressed)
SelectOption(o) ==
    /\ view = "attempt"
    /\ currentTest # nullTest
    /\ o \in 0..(currentTest.questions[currentQuestionIndex + 1].options - 1)
    /\ selectedOption' = o
    /\ fault' = FALSE
    /\ UNCHANGED <<tests, performanceHistory, currentTest, currentQuestionIndex,
                   userAnswers, questionStatuses, timerInterval, timeRemaining,
                   timePerQuestion, sinceQuestionStart, view, idClock,
                   parserVars>>
    /\ toast' = "none"

\* the checked radio button after the clearResponseBtn handler
\* mutant: the handler does not uncheck the radio button
ClearedSelection_Kept(sel) == sel

ClearedSelection(sel) == null

\* clearResponseBtn click handler
ClearResponse ==
    /\ view = "attempt"
    /\ IF selectedOption # null
       THEN selectedOption' = ClearedSelection(selectedOption) /\ toast' = "info"
       ELSE selectedOption' = null /\ toast' = "none"
    /\ fault' = FALSE
    /\ UNCHANGED <<tests, performanceHistory, currentTest, currentQuestionIndex,
                   userAnswers, questionStatuses, timerInterval, timeRemaining,
                   timePerQuestion, sinceQuestionStart, view, idClock, parserVars>>

\* saveNextBtn click handler
SaveNext ==
    /\ view = "attempt"
    /\ navigateToQuestion(currentQuestionIndex + 1, questionStatuses)
    /\ UNCHANGED <<tests, performanceHistory, view, idClock, parserVars>>

\* prevBtn click handler
Previous ==
    /\ view = "attempt"
    /\ navigateToQuestion(currentQuestionIndex - 1, questionStatuses)
    /\ UNCHANGED <<tests, performanceHistory, view, idClock, parserVars>>

\* questionPaletteContainer click handler, palette button newIndex
PaletteClick(newIndex) ==
    /\ view = "attempt"
    /\ currentTest # nullTest
    /\ newIndex \in QuestionIndexes(currentTest)
    /\ newIndex # currentQuestionIndex
    /\ navigateToQuestion(newIndex, questionStatuses)
    /\ UNCHANGED <<tests, performanceHistory, view, idClock, parserVars>>

\* the status the markReviewBtn handler writes before it navigates
\* mutant: the button takes the mark off a question that has it
MarkedStatus_Toggles(currentStatus) ==
    IF currentStatus = "markedAndAnswered" THEN "answered"
    ELSE IF currentStatus = "marked" THEN "notAnswered"
    ELSE IF currentStatus = "answered" THEN "markedAndAnswered" ELSE "marked"

MarkedStatus(currentStatus) ==
    IF currentStatus = "answered" \/ currentStatus = "markedAndAnswered"
    THEN "markedAndAnswered" ELSE "marked"

\* markReviewBtn click handler
MarkReview ==
    /\ view = "attempt"
    /\ navigateToQuestion(currentQuestionIndex + 1,
           SetStatus(questionStatuses, currentQuestionIndex,
                     MarkedStatus(GetStatus(questionStatuses, currentQuestionIndex))))
    /\ UNCHANGED <<tests, performanceHistory, view, idClock, parserVars>>

\* ------------------------------------------------------------- stopTimer
\* timerInterval after stopTimer()
\* mutant: stopTimer leaves the interval handle in place
stopTimer_KeepsHandle == timerInterval

stopTimer == null

\* --------------------------------------------------------- handleSubmitTest
\* the performance history after history.unshift(attempt)
\* mutant: the new record replaces the history
StoredHistory_Overwrites(history, attempt) == <<attempt>>

StoredHistory(history, attempt) == <<attempt>> \o history

\* the view handleSubmitTest shows when currentTest is missing, v being shown
\* mutant: the showView(mainView) of that branch is missing
ViewAfterFailedSubmit_Stays(v) == v

ViewAfterFailedSubmit(v) == "main"

\* handleSubmitTest, run when Date.now() - questionStartTime is elapsed and
\* timeRemaining is remaining; notice is the toast its caller showed
handleSubmitTest(elapsed, remaining, notice) ==
    LET idx == currentQuestionIndex
        tpq == AddTime(timePerQuestion, idx, elapsed)
        ua == SavedAnswers(userAnswers, idx, selectedOption)
        qs == SavedStatuses(questionStatuses, idx, selectedOption)
    IN  /\ timerInterval' = stopTimer
        /\ timeRemaining' = remaining
        /\ sinceQuestionStart' = elapsed
        /\ timePerQuestion' = tpq
        /\ userAnswers' = ua
        /\ questionStatuses' = qs
        /\ fault' = FALSE
        /\ UNCHANGED <<tests, currentQuestionIndex, selectedOption, idClock, parserVars>>
        /\ IF currentTest = nullTest
           THEN /\ toast' = "error"
                /\ view' = ViewAfterFailedSubmit(view)
                /\ UNCHANGED <<performanceHistory, currentTest>>
           ELSE /\ performanceHistory' =
                      StoredHistory(performanceHistory,
                                    BuildAttempt(currentTest, ua, tpq, remaining))
                /\ currentTest' = nullTest
                /\ view' = "report"
                /\ toast' = notice

\* document click handler, #submit-test-btn
SubmitClick ==
    /\ view = "attempt"
    /\ handleSubmitTest(sinceQuestionStart, timeRemaining, "none")

\* timerInterval after the abandon dialog: the timer, stopped while the dialog
\* is open, is started again only when the dialog is cancelled
\* mutant: the timer is started again whatever the answer
TimerAfterDialog_Restarted(confirmed, handle) == handle

TimerAfterDialog(confirmed, handle) == IF confirmed THEN stopTimer ELSE handle

\* document click handler, #back-to-all-tests: the confirm dialog stays open for
\* wait seconds and is answered with confirmed
AbandonDialog(wait, confirmed) ==
    /\ view = "attempt"
    /\ wait \in 0..MaxDialogWait
    /\ SumSeq(timePerQuestion) + sinceQuestionStart + wait <= MaxClock
    /\ sinceQuestionStart' = sinceQuestionStart + wait
    /\ timerInterval' = TimerAfterDialog(confirmed, timerInterval)
    /\ IF confirmed
       THEN /\ currentTest' = nullTest
            /\ view' = "allTests"
       ELSE UNCHANGED <<currentTest, view>>
    /\ fault' = FALSE
    /\ UNCHANGED <<tests, performanceHistory, currentQuestionIndex, userAnswers,
                   questionStatuses, timeRemaining, timePerQuestion,
                   selectedOption, idClock, parserVars>>
    /\ toast' = "none"

\* ------------------------------------------------------------------ timer
\* timeRemaining after the timeRemaining-- of the setInterval callback
\* mutant: the callback does not count down
TimeAfterTick_Stuck(remaining) == remaining

TimeAfterTick(remaining) == remaining - 1

\* the setInterval callback of startTimer, one second after the previous one
TimerTick ==
    /\ timerInterval # null
    /\ IF TimeAfterTick(timeRemaining) <= 0
       THEN /\ handleSubmitTest(sinceQuestionStart + 1, TimeAfterTick(timeRemaining),
                                "warning")
       ELSE /\ timeRemaining' = TimeAfterTick(timeRemaining)
            /\ sinceQuestionStart' = sinceQuestionStart + 1
            /\ fault' = FALSE
            /\ UNCHANGED <<tests, performanceHistory, currentTest,
                           currentQuestionIndex, userAnswers, questionStatuses,
                           timerInterval, timePerQuestion, selectedOption, view,
                           idClock, parserVars>>
            /\ toast' = "none"

\* ------------------------------------------------------------------- Spec
Next ==
    \/ \E file \in TestFiles : handleImportTest(file)
    \/ \E file \in TestFiles : RestoreSingleTest(file)
    \/ ShowAllTests
    \/ \E i \in 1..MaxTests : StartFromList(i)
    \/ \E o \in 0..MaxOptionIndex : SelectOption(o)
    \/ ClearResponse
    \/ MarkReview
    \/ SaveNext
    \/ Previous
    \/ \E j \in 0..(MaxQuestions - 1) : PaletteClick(j)
    \/ SubmitClick
    \/ \E w \in 0..MaxDialogWait, c \in BOOLEAN : AbandonDialog(w, c)
    \/ TimerTick

Spec == Init /\ [][Next]_vars

\* ------------------------------------------------------- a stored library
\* SpecAttempt: the page is opened on a library that an earlier session left in
\* localStorage, and one of its tests is attempted.

\* the tests of the stored libraries: one without questions, one of duration 0,
\* one restored with marks 0, and one with 1 mark per question and 1/2 mark off
AttemptFiles ==
    {TestFile(0, <<MaxSeconds, SecondsPerMinute>>, <<MarkDen, 1>>),
     TestFile(1, <<0, SecondsPerMinute>>, <<MarkDen, 1>>),
     TestFile(MaxQuestions, <<MaxSeconds, SecondsPerMinute>>, <<0, 0>>),
     TestFile(MaxQuestions, <<MaxSeconds, SecondsPerMinute>>, <<MarkDen, 1>>)}

\* the libraries of one test that restore can have stored
StoredLibraries ==
    {<<StoredTest(file, 1, file.marksPerQuestion, file.negativeMarking)>> :
         file \in AttemptFiles}

InitAttempt ==
    /\ tests \in StoredLibraries
    /\ performanceHistory = <<>>
    /\ currentTest = nullTest
    /\ currentQuestionIndex = 0
    /\ userAnswers = <<>>
    /\ questionStatuses = <<>>
    /\ timerInterval = null
    /\ timeRemaining = 0
    /\ timePerQuestion = <<>>
    /\ sinceQuestionStart = 0
    /\ selectedOption = null
    /\ view = "main"
    /\ toast = "none"
    /\ fault = FALSE
    /\ idClock = 2
    /\ manualText = ""
    /\ parsedQuestions = <<>>
    /\ aiRequests = 0

NextAttempt ==
    \/ ShowAllTests
    \/ \E i \in 1..MaxTests : StartFromList(i)
    \/ \E o \in 0..MaxOptionIndex : SelectOption(o)
    \/ ClearResponse
    \/ MarkReview
    \/ SaveNext
    \/ Previous
    \/ \E j \in 0..(MaxQuestions - 1) : PaletteClick(j)
    \/ SubmitClick
    \/ TimerTick

SpecAttempt == InitAttempt /\ [][NextAttempt]_vars

\* ------------------------------------------------------------- a session
\* SpecSession: several attempts of one stored test, one after the other; an
\* attempt ends with a submission (manual or forced) or is abandoned.

\* the test of the session: 1 question of 2 options, 1 second, 1 mark per
\* question and 1/2 mark off per wrong answer
SessionLibrary ==
    <<[id |-> 1, questions |-> <<[answer |-> 1, options |-> 2]>>,
       duration |-> <<1, SecondsPerMinute>>,
       marksPerQuestion |-> MarkDen, negativeMarking |-> 1]>>

InitSession ==
    /\ tests = SessionLibrary
    /\ performanceHistory = <<>>
    /\ currentTest = nullTest
    /\ currentQuestionIndex = 0
    /\ userAnswers = <<>>
    /\ questionStatuses = <<>>
    /\ timerInterval = null
    /\ timeRemaining = 0
    /\ timePerQuestion = <<>>
    /\ sinceQuestionStart = 0
    /\ selectedOption = null
    /\ view = "main"
    /\ toast = "none"
    /\ fault = FALSE
    /\ idClock = 2
    /\ manualText = ""
    /\ parsedQuestions = <<>>
    /\ aiRequests = 0

\* backToPerformanceListBtn click handler on the report of a submission
\* (reportReturnView is allTestsView)
BackToList ==
    /\ view = "report"
    /\ Len(performanceHistory) < MaxAttempts
    /\ view' = "allTests"
    /\ toast' = "none"
    /\ fault' = FALSE
    /\ UNCHANGED <<tests, performanceHistory, attemptVars, idClock, parserVars>>

NextSession ==
    \/ ShowAllTests
    \/ \E i \in 1..MaxTests : StartFromList(i)
    \/ \E o \in 0..MaxOptionIndex : SelectOption(o)
    \/ ClearResponse
    \/ MarkReview
    \/ SaveNext
    \/ Previous
    \/ SubmitClick
    \/ \E w \in 0..MaxDialogWait, c \in BOOLEAN : AbandonDialog(w, c)
    \/ TimerTick
    \/ BackToList

SpecSession == InitSession /\ [][NextSession]_vars

\* ------------------------------------------------------ answers and marks
\* SpecReview: one attempt of a stored test of ReviewQuestions questions with two
\* options each and a duration of one second, so that the first timer tick
\* forces the submission.

ReviewLibrary ==
    <<[id |-> 1,
       questions |-> [k \in 1..ReviewQuestions |-> [answer |-> 0, options |-> 2]],
       duration |-> <<1, SecondsPerMinute>>,
       marksPerQuestion |-> MarkDen, negativeMarking |-> 1]>>

InitReview ==
    /\ tests = ReviewLibrary
    /\ performanceHistory = <<>>
    /\ currentTest = nullTest
    /\ currentQuestionIndex = 0
    /\ userAnswers = <<>>
    /\ questionStatuses = <<>>
    /\ timerInterval = null
    /\ timeRemaining = 0
    /\ timePerQuestion = <<>>
    /\ sinceQuestionStart = 0
    /\ selectedOption = null
    /\ view = "allTests"
    /\ toast = "none"
    /\ fault = FALSE
    /\ idClock = 2
    /\ manualText = ""
    /\ parsedQuestions = <<>>
    /\ aiRequests = 0

NextReview ==
    \/ \E i \in 1..MaxTests : StartFromList(i)
    \/ \E o \in 0..MaxOptionIndex : SelectOption(o)
    \/ ClearResponse
    \/ MarkReview
    \/ SaveNext
    \/ Previous
    \/ \E j \in 0..(ReviewQuestions - 1) : PaletteClick(j)
    \/ SubmitClick
    \/ TimerTick

SpecReview == InitReview /\ [][NextReview]_vars

\* --------------------------------------------------------------- the timer
\* SpecTimer: attempts of a stored test of one question and MaxSeconds seconds;
\* the interval callback runs one second after the previous one as long as the
\* interval is set (weak fairness of TimerTick).

TimerLibrary ==
    <<[id |-> 1, questions |-> <<[answer |-> 1, options |-> 2]>>,
       duration |-> <<MaxSeconds, SecondsPerMinute>>,
       marksPerQuestion |-> MarkDen, negativeMarking |-> 1]>>

InitTimer ==
    /\ tests = TimerLibrary
    /\ performanceHistory = <<>>
    /\ currentTest = nullTest
    /\ currentQuestionIndex = 0
    /\ userAnswers = <<>>
    /\ questionStatuses = <<>>
    /\ timerInterval = null
    /\ timeRemaining = 0
    /\ timePerQuestion = <<>>
    /\ sinceQuestionStart = 0
    /\ selectedOption = null
    /\ view = "allTests"
    /\ toast = "none"
    /\ fault = FALSE
    /\ idClock = 2
    /\ manualText = ""
    /\ parsedQuestions = <<>>
    /\ aiRequests = 0

NextTimer ==
    \/ \E i \in 1..MaxTests : StartFromList(i)
    \/ \E o \in 0..MaxOptionIndex : SelectOption(o)
    \/ ClearResponse
    \/ MarkReview
    \/ SaveNext
    \/ Previous
    \/ SubmitClick
    \/ \E w \in 0..MaxDialogWait, c \in BOOLEAN : AbandonDialog(w, c)
    \/ TimerTick

SpecTimer == InitTimer /\ [][NextTimer]_vars /\ WF_vars(TimerTick)

\* ------------------------------------------------- a missing Test reference
\* SpecFault: handleSubmitTest and the timer on the states the guard
\* "if (!currentTest)" of handleSubmitTest is written for: the attempt view
\* shows the attempt of a test and currentTest is null.

\* the test whose attempt is shown
FaultTest ==
    LET file == TestFile(MaxQuestions, <<MaxSeconds, SecondsPerMinute>>, <<MarkDen, 1>>)
    IN  StoredTest(file, 1, file.marksPerQuestion, file.negativeMarking)

InitFault ==
    \E ua \in [1..MaxQuestions -> {null} \cup (0..MaxOptionIndex)],
       idx \in 0..(MaxQuestions - 1),
       sel \in {null} \cup (0..MaxOptionIndex),
       remaining \in 0..MaxSeconds,
       handle \in {null, TimerHandle},
       stored \in BOOLEAN :
        /\ tests = <<FaultTest>>
        /\ performanceHistory =
              IF stored
              THEN <<BuildAttempt(FaultTest, ArrayFill(MaxQuestions, null),
                                  ArrayFill(MaxQuestions, 0), 0)>>
              ELSE <<>>
        /\ currentTest = nullTest
        /\ currentQuestionIndex = idx
        /\ userAnswers = ua
        /\ questionStatuses =
              [k \in 1..MaxQuestions |->
                  IF ua[k] # null THEN "answered" ELSE "notAnswered"]
        /\ timerInterval = handle
        /\ timeRemaining = remaining
        /\ timePerQuestion = ArrayFill(MaxQuestions, 0)
        /\ sinceQuestionStart = 0
        /\ selectedOption = sel
        /\ view = "attempt"
        /\ toast = "none"
        /\ fault = FALSE
        /\ idClock = 2
        /\ manualText = ""
        /\ parsedQuestions = <<>>
        /\ aiRequests = 0

NextFault ==
    \/ SubmitClick
    \/ TimerTick

SpecFault == InitFault /\ [][NextFault]_vars

\* ------------------------------------------------------ scored attempts
\* SpecScore: handleSubmitTest on the last question of attempts whose questions
\* split into correct, incorrect and unanswered in every way.  Each initial state
\* is the state of an attempt in which every question was answered (or skipped)
\* with Save & Next, the last Save & Next having hit the last-question limit.

\* answers to n questions: the first c correct, the next w wrong, the rest null
SplitAnswers(n, c, w) ==
    [k \in 1..n |-> IF k <= c THEN Key(k)
                    ELSE IF k <= c + w THEN (Key(k) + 1) % NumOptions
                    ELSE null]

ScoreMarkValues == {0, MarkDen, 2 * MarkDen}
ScoreNegativeValues == {0, 1, MarkDen}

InitScore ==
    \E n \in 1..ScoreMaxQuestions, c \in 0..ScoreMaxQuestions,
       w \in 0..ScoreMaxQuestions, m \in ScoreMarkValues, g \in ScoreNegativeValues :
        LET file == TestFile(n, <<MaxSeconds, SecondsPerMinute>>, <<m, g>>)
            test == StoredTest(file, 1, m, g)
            ua == SplitAnswers(n, c, w)
        IN  /\ c + w <= n
            /\ tests = <<test>>
            /\ performanceHistory = <<>>
            /\ currentTest = test
            /\ currentQuestionIndex = n - 1
            /\ userAnswers = ua
            /\ questionStatuses =
                  [k \in 1..n |-> IF ua[k] # null THEN "answered" ELSE "notAnswered"]
            /\ timerInterval = TimerHandle
            /\ timeRemaining = DurationSeconds(test)
            /\ timePerQuestion = ArrayFill(n, 0)
            /\ sinceQuestionStart = 0
            /\ selectedOption = ua[n]
            /\ view = "attempt"
            /\ toast = "info"
            /\ fault = FALSE
            /\ idClock = 2
            /\ manualText = ""
            /\ parsedQuestions = <<>>
            /\ aiRequests = 0

NextScore == SubmitClick

SpecScore == InitScore /\ [][NextScore]_vars

\* ------------------------------------------------------ parseManualQuestions
\* Text is a TLA+ string; a position p in 1..Len(s)+1 is the cursor before the
\* p-th character.  Inputs are ASCII, so the Devanagari alternatives of the
\* label patterns never match and are left out.  Every pattern of the parser has
\* the i flag: characters are compared in lower case.

UpperCase == "ABCDEFGHIJKLMNOPQRSTUVWXYZ"
LowerCase == "abcdefghijklmnopqrstuvwxyz"
WhiteSpace == {" ", "\t", "\n", "\r"}          \* \s
LineTerminators == {"\n", "\r"}                \* what . does not match
Digits == {"0", "1", "2", "3", "4", "5", "6", "7", "8", "9"}      \* \d
Letters == {SubSeq(LowerCase, i, i) : i \in 1..26}                \* [A-Z] with i
LetterKeys == {"a", "b", "c", "d"}             \* [a-d] with i
DigitKeys == {"1", "2", "3", "4"}              \* [1-4]
Closers == {")", ".", "]"}                     \* [\)\.\]]
Separators == {":", ".", "-"}                  \* [:.-]

Min(S) == CHOOSE x \in S : \A y \in S : x <= y

\* the character after cursor p, "" at the end of the text
Ch(s, p) == IF 1 <= p /\ p <= Len(s) THEN SubSeq(s, p, p) ELSE ""

\* the lower-case letter of every upper-case letter
LowerOf ==
    [c \in {SubSeq(UpperCase, i, i) : i \in 1..26} |->
        LET i == CHOOSE j \in 1..26 : SubSeq(UpperCase, j, j) = c
        IN  SubSeq(LowerCase, i, i)]

ToLower(c) == IF c \in DOMAIN LowerOf THEN LowerOf[c] ELSE c

Lc(s, p) == ToLower(Ch(s, p))

\* the cursor after the longest run of characters of class C starting at p
SkipWhile(s, p, C) ==
    IF p > Len(s) THEN p
    ELSE CHOOSE q \in p..(Len(s) + 1) :
             /\ Lc(s, q) \notin C
             /\ \A k \in p..(q - 1) : Lc(s, k) \in C

\* the cursor before the longest run of white space that ends at cursor p
SkipBack(s, p) ==
    CHOOSE q \in 1..p :
        /\ Ch(s, q - 1) \notin WhiteSpace
        /\ \A k \in q..(p - 1) : Ch(s, k) \in WhiteSpace

\* String.prototype.trim
Trim(s) == SubSeq(s, SkipWhile(s, 1, WhiteSpace), SkipBack(s, Len(s) + 1) - 1)

\* the cursor after the longest run of characters outside class C starting at p
SkipUntil(s, p, C) ==
    IF p > Len(s) THEN p
    ELSE CHOOSE q \in p..(Len(s) + 1) :
             /\ q > Len(s) \/ Lc(s, q) \in C
             /\ \A k \in p..(q - 1) : Lc(s, k) \notin C

\* the (lower-case) word w stands at cursor p
LitAt(s, p, w) ==
    /\ p + Len(w) - 1 <= Len(s)
    /\ \A k \in 1..Len(w) : Lc(s, p + k - 1) = SubSeq(w, k, k)

\* cursors reachable from the cursors S by C*, C, C? and C+
Star(s, S, C) == UNION {b..SkipWhile(s, b, C) : b \in S}
One(s, S, C) == {b + 1 : b \in {x \in S : Lc(s, x) \in C}}
Opt(s, S, C) == S \cup One(s, S, C)
Plus(s, S, C) == Star(s, One(s, S, C), C)

\* the split pattern matches at cursor p:
\* (?=(?:^|\n)\s*(?:\d+[\.\)]\s*|\(?Q?\.?\d*\)?\.?\s*|Q\s*\.?\s*\d*\.?\s*)(?=[A-Z]))
QuestionStartAt(s, p) ==
    LET start == (IF p = 1 THEN {1} ELSE {})
                    \cup (IF Ch(s, p) = "\n" THEN {p + 1} ELSE {})
        ws == Star(s, start, WhiteSpace)
        numbered == Star(s, One(s, Plus(s, ws, Digits), {".", ")"}), WhiteSpace)
        bracketed ==
            Star(s, Opt(s, Opt(s, Star(s, Opt(s, Opt(s, Opt(s, ws, {"("}), {"q"}),
                                              {"."}), Digits), {")"}), {"."}),
                 WhiteSpace)
        qPrefixed ==
            Star(s, Opt(s, Star(s, Star(s, Opt(s, Star(s, One(s, ws, {"q"}),
                                                       WhiteSpace), {"."}),
                                        WhiteSpace), Digits), {"."}), WhiteSpace)
    IN  \E e \in numbered \cup bracketed \cup qPrefixed : Lc(s, e) \in Letters

\* the elements of a set of cursors in increasing order
RECURSIVE SortedSeq(_)
SortedSeq(S) == IF S = {} THEN <<>> ELSE <<Min(S)>> \o SortedSeq(S \ {Min(S)})

\* text.split(pattern): the pattern is zero-width, so the text is cut at every
\* cursor after the first character where the pattern matches
SplitText(s) ==
    LET cuts == SortedSeq({p \in 2..Len(s) : QuestionStartAt(s, p)})
        from(i) == IF i = 1 THEN 1 ELSE cuts[i - 1]
        to(i) == IF i = Len(cuts) + 1 THEN Len(s) ELSE cuts[i] - 1
    IN  [i \in 1..(Len(cuts) + 1) |-> SubSeq(s, from(i), to(i))]

\* .filter(block => block.trim())
NonBlank(b) == Trim(b) # ""
questionBlocks(text) == SelectSeq(SplitText(text), NonBlank)

\* the ways \s*[:.-]?\s* can match from cursor k: <<end of the first \s*,
\* 1 if the separator is taken, end of the second \s*>>
LabelPaths(s, k) ==
    {x \in (k..SkipWhile(s, k, WhiteSpace)) \X {0, 1} \X (k..(Len(s) + 1)) :
        /\ x[2] = 1 => Ch(s, x[1]) \in Separators
        /\ x[3] >= x[1] + x[2]
        /\ x[3] <= SkipWhile(s, x[1] + x[2], WhiteSpace)}

\* the order in which backtracking tries them: greedy quantifiers first
Preferred(x, y) ==
    \/ x[1] > y[1]
    \/ x[1] = y[1] /\ x[2] > y[2]
    \/ x[1] = y[1] /\ x[2] = y[2] /\ x[3] >= y[3]

\* cursor where the capture of (?:words)\s*[:.-]?\s*(capture) starts when the
\* pattern is tried at cursor p, 0 when it does not match there; valid is the set
\* of cursors from which the capture and the rest of the pattern match
LabelCaptureAt(s, p, words, valid) ==
    LET paths(i) == {x \in LabelPaths(s, p + Len(words[i])) : x[3] \in valid}
        is == {i \in 1..Len(words) : LitAt(s, p, words[i]) /\ paths(i) # {}}
    IN  IF is = {} THEN 0
        ELSE LET P == paths(Min(is))
             IN  (CHOOSE x \in P : \A y \in P : Preferred(x, y))[3]

\* lines.match(pattern): the leftmost cursor where the pattern matches
LabelCapture(s, words, valid) ==
    LET ps == {p \in 1..Len(s) : LabelCaptureAt(s, p, words, valid) # 0}
    IN  IF ps = {} THEN 0 ELSE LabelCaptureAt(s, Min(ps), words, valid)

\* /(?:Answer|Ans)\s*[:.-]?\s*([a-dA-D1-4])/i, then toLowerCase
AnswerText(lines) ==
    LET b == LabelCapture(lines, <<"answer", "ans">>,
                 {c \in 1..Len(lines) : Lc(lines, c) \in LetterKeys \cup DigitKeys})
    IN  IF b = 0 THEN "" ELSE Lc(lines, b)

\* /(?:Explanation|Exp)\s*[:.-]?\s*([\s\S]*?)(?=(?:Subject|Topic|$))/i, trimmed
ExplanationText(lines) ==
    LET b == LabelCapture(lines, <<"explanation", "exp">>, 1..(Len(lines) + 1))
        e == Min({q \in b..Len(lines) :
                     LitAt(lines, q, "subject") \/ LitAt(lines, q, "topic")}
                 \cup {Len(lines) + 1})
    IN  IF b = 0 THEN "" ELSE Trim(SubSeq(lines, b, e - 1))

\* /(?:word)\s*[:.-]?\s*([^||\n]+)/i, trimmed
FieldText(lines, word) ==
    LET b == LabelCapture(lines, <<word>>,
                 {c \in 1..Len(lines) : Ch(lines, c) \notin {"|", "\n"}})
    IN  IF b = 0 THEN ""
        ELSE Trim(SubSeq(lines, b, SkipUntil(lines, b, {"|", "\n"}) - 1))

SubjectText(lines) == FieldText(lines, "subject")
TopicText(lines) == FieldText(lines, "topic")

\* the three optionPatterns: the characters that label an option and whether the
\* label stands in parentheses
optionPatterns ==
    <<[keys |-> LetterKeys, bracketed |-> FALSE],
      [keys |-> LetterKeys, bracketed |-> TRUE],
      [keys |-> DigitKeys, bracketed |-> FALSE]>>

\* the words that end an option text
StopWordAt(s, e) ==
    \/ LitAt(s, e, "answer")
    \/ LitAt(s, e, "ans")
    \/ LitAt(s, e, "explanation")
    \/ LitAt(s, e, "subject")
    \/ LitAt(s, e, "topic")

\* an option label of the pattern stands at cursor p: the cursor after it, else 0
OptionLabelAt(s, p, pat) ==
    IF pat.bracketed
    THEN IF Ch(s, p) = "(" /\ Lc(s, p + 1) \in pat.keys /\ Ch(s, p + 2) = ")"
         THEN p + 3 ELSE 0
    ELSE IF Lc(s, p) \in pat.keys
            /\ Ch(s, SkipWhile(s, p + 1, WhiteSpace)) \in Closers
         THEN SkipWhile(s, p + 1, WhiteSpace) + 1 ELSE 0

\* the characters an option text cannot hold: [^a-d\)\.\]], [^()], [^1-4\)\.\]]
Excluded(pat) == IF pat.bracketed THEN {"(", ")"} ELSE pat.keys \cup Closers

\* the option text that starts at cursor b: <<start, end>>; the lazy capture ends
\* at the first cursor where the lookahead matches (a next label, a stop word or
\* the end of the block), <<>> when an excluded character comes first
OptionTextFrom(s, b, pat) ==
    LET ends == {e \in b..SkipUntil(s, b, Excluded(pat)) :
                    \/ OptionLabelAt(s, e, pat) # 0
                    \/ StopWordAt(s, e)
                    \/ e = Len(s) + 1}
    IN  IF ends = {} THEN <<>> ELSE <<b, Min(ends)>>

\* the option text after a label that ends at cursor after (0: no label)
OptionTextAfter(s, after, pat) ==
    IF after = 0 THEN <<>>
    ELSE OptionTextFrom(s, SkipWhile(s, after, WhiteSpace), pat)

\* one match of an option pattern tried at cursor p: <<start, end>> of the option
\* text, <<>> when the pattern does not match at p
OptionMatchAt(s, p, pat) == OptionTextAfter(s, OptionLabelAt(s, p, pat), pat)

\* [...lines.matchAll(pattern)]: the option texts of the successive matches
RECURSIVE OptionMatches(_, _, _)
\* the match m and the matches after it
MatchAndRest(s, m, pat) ==
    <<SubSeq(s, m[1], m[2] - 1)>> \o OptionMatches(s, m[2], pat)

OptionMatches(s, from, pat) ==
    LET ps == {p \in from..Len(s) : OptionMatchAt(s, p, pat) # <<>>}
    IN  IF ps = {} THEN <<>>
        ELSE MatchAndRest(s, OptionMatchAt(s, Min(ps), pat), pat)

\* .replace(/word.*$/i, ''): cut at the first occurrence of the word that has no
\* line terminator after it
RemoveFrom(s, word) ==
    LET ps == {p \in 1..Len(s) :
                  /\ LitAt(s, p, word)
                  /\ \A k \in (p + Len(word))..Len(s) : Ch(s, k) \notin LineTerminators}
    IN  IF ps = {} THEN s ELSE SubSeq(s, 1, Min(ps) - 1)

OptionText(capture) ==
    Trim(RemoveFrom(RemoveFrom(RemoveFrom(RemoveFrom(Trim(capture), "answer"),
                                          "explanation"), "subject"), "topic"))

NonEmpty(o) == o # ""

\* the loop over optionPatterns from pattern i on: the options collected and
\* whether a pattern gave at least 2 of them (break)
RECURSIVE FindOptions(_, _, _)
\* if (options.length >= 2) break
KeepOrNext(lines, i, texts) ==
    IF Len(texts) >= 2 THEN [options |-> texts, found |-> TRUE]
    ELSE FindOptions(lines, i + 1, texts)

\* if (matches.length >= 2) { options = the non-empty option texts ... }
TryPattern(lines, i, options, matches) ==
    IF Len(matches) >= 2
    THEN KeepOrNext(lines, i,
             SelectSeq([k \in 1..Len(matches) |-> OptionText(matches[k])], NonEmpty))
    ELSE FindOptions(lines, i + 1, options)

FindOptions(lines, i, options) ==
    IF i > Len(optionPatterns) THEN [options |-> options, found |-> FALSE]
    ELSE TryPattern(lines, i, options, OptionMatches(lines, 1, optionPatterns[i]))

\* lines.match(/([a-d1-4])\s*[\)\.\]]/i).index, Len(lines) without a match
FirstOptionIndex(lines) ==
    LET ps == {p \in 1..Len(lines) :
                  /\ Lc(lines, p) \in LetterKeys \cup DigitKeys
                  /\ Ch(lines, SkipWhile(lines, p + 1, WhiteSpace)) \in Closers}
    IN  IF ps = {} THEN Len(lines) ELSE Min(ps) - 1

\* .replace(/^[\s\d\.\)\(Q]+/i, '')
StripNumber(s) ==
    SubSeq(s, SkipWhile(s, 1, WhiteSpace \cup Digits \cup {".", ")", "(", "q"}), Len(s))

\* .replace(/\s+/g, ' '): from cursor p, the next word and one space for the
\* white space after it
RECURSIVE CollapseSpaces(_, _)
CollapseSpaces(s, p) ==
    LET e == SkipUntil(s, p, WhiteSpace)
        n == SkipWhile(s, e, WhiteSpace)
    IN  IF p > Len(s) THEN ""
        ELSE SubSeq(s, p, e - 1) \o (IF n > e THEN " " ELSE "")
             \o CollapseSpaces(s, n)

QuestionText(lines, optionsEndIndex) ==
    Trim(CollapseSpaces(StripNumber(SubSeq(lines, 1, optionsEndIndex)), 1))

\* while (options.length < 4) options.push(`Option ${n}`); options.slice(0, 4)
\* mutant: the options found beyond the fourth are kept (no slice)
PadOptions_NoSlice(options) ==
    [k \in 1..(IF Len(options) > 4 THEN Len(options) ELSE 4) |->
        IF k <= Len(options) THEN options[k]
        ELSE "Option " \o SubSeq("1234", k, k)]

PadOptions(options) ==
    [k \in 1..4 |-> IF k <= Len(options) THEN options[k]
                    ELSE "Option " \o SubSeq("1234", k, k)]

\* the answer letter or digit as an index, clamped to 0..3
AnswerIndex(answerText) ==
    LET pos(keys) == CHOOSE k \in 1..4 : SubSeq(keys, k, k) = answerText
        idx == IF answerText = "" THEN 0
               ELSE IF answerText \in LetterKeys THEN pos("abcd") - 1
               ELSE pos("1234") - 1
    IN  IF idx < 0 THEN 0 ELSE IF idx > 3 THEN 3 ELSE idx

OrDefault(s, default) == IF s = "" THEN default ELSE s

\* questions.push({...}) when the question text and the options are valid
PushQuestion(lines, questionText, options) ==
    IF Len(questionText) > 5 /\ Len(SelectSeq(options, NonEmpty)) >= 2
    THEN <<[question |-> questionText,
            options |-> options,
            answer |-> AnswerIndex(AnswerText(lines)),
            explanation |-> OrDefault(ExplanationText(lines),
                                      "No explanation provided."),
            subject |-> OrDefault(SubjectText(lines), "General"),
            topic |-> OrDefault(TopicText(lines), "Miscellaneous")]>>
    ELSE <<>>

\* the question of a block whose options were looked for
ParseLines(lines, opts) ==
    PushQuestion(lines,
                 QuestionText(lines, IF opts.found THEN FirstOptionIndex(lines)
                                     ELSE Len(lines)),
                 PadOptions(opts.options))

\* the body of questionBlocks.forEach: the questions a trimmed block adds
ParseTrimmed(lines) ==
    IF Len(lines) < 10 THEN <<>>
    ELSE ParseLines(lines, FindOptions(lines, 1, <<>>))

ParseBlock(block) == ParseTrimmed(Trim(block))

RECURSIVE ParseBlocks(_, _)
\* (variant: a block that adds no question ends the loop)
ParseBlocks_StopsAtRejected(blocks, i) ==
    IF i > Len(blocks) \/ ParseBlock(blocks[i]) = <<>> THEN <<>>
    ELSE ParseBlock(blocks[i]) \o ParseBlocks(blocks, i + 1)

\* questionBlocks.forEach: each block in turn, in its own try/catch
ParseBlocks(blocks, i) ==
    IF i > Len(blocks) THEN <<>>
    ELSE ParseBlock(blocks[i]) \o ParseBlocks(blocks, i + 1)

parseManualQuestions(text) == ParseBlocks(questionBlocks(text), 1)

\* ------------------------------------------------- the bulk-import texts
\* SpecParse: handleGenerateTest on the manual tab, for texts of up to MaxBlocks
\* question blocks in the format of IMPROVEMENTS.md ("Format Example").

\* the two questions of the format example
BlockContents ==
    <<[stem |-> "Which is the largest planet?",
       options |-> <<"Earth", "Mars", "Jupiter", "Venus">>,
       explanation |-> "Jupiter is the largest planet in our solar system.",
       subject |-> "Science", topic |-> "Solar System"],
      [stem |-> "Who was the first Prime Minister of India?",
       options |-> <<"Mahatma Gandhi", "Jawaharlal Nehru", "Sardar Patel",
                     "Dr. Rajendra Prasad">>,
       explanation |-> "Jawaharlal Nehru served as the first Prime Minister of India.",
       subject |-> "History", topic |-> "Modern India"]>>

\* a block: one of the two questions, its answer letter, and whether the
\* Explanation and Subject | Topic lines follow the Answer line
WellFormedBlocks ==
    [content : 1..Len(BlockContents), answer : {"b", "c"}, details : BOOLEAN]

\* the k-th block of a text
RenderBlock(k, b) ==
    LET c == BlockContents[b.content]
    IN  SubSeq("123456789", k, k) \o ". " \o c.stem \o "\n"
        \o "a) " \o c.options[1] \o "  b) " \o c.options[2]
        \o "  c) " \o c.options[3] \o "  d) " \o c.options[4] \o "\n"
        \o "Answer: " \o b.answer
        \o (IF b.details
            THEN "\nExplanation: " \o c.explanation
                 \o "\nSubject: " \o c.subject \o " | Topic: " \o c.topic
            ELSE "")

\* the blocks, one blank line between two of them
RECURSIVE RenderText(_, _)
RenderText(blocks, k) ==
    IF k > Len(blocks) THEN ""
    ELSE (IF k = 1 THEN "" ELSE "\n\n") \o RenderBlock(k, blocks[k])
         \o RenderText(blocks, k + 1)

BlockLists == UNION {[1..n -> WellFormedBlocks] : n \in 0..MaxBlocks}

\* minutes in the duration field of the generate form
FormDuration == <<1, 1>>

InitParse ==
    /\ tests = <<>>
    /\ performanceHistory = <<>>
    /\ currentTest = nullTest
    /\ currentQuestionIndex = 0
    /\ userAnswers = <<>>
    /\ questionStatuses = <<>>
    /\ timerInterval = null
    /\ timeRemaining = 0
    /\ timePerQuestion = <<>>
    /\ sinceQuestionStart = 0
    /\ selectedOption = null
    /\ view = "main"
    /\ toast = "none"
    /\ fault = FALSE
    /\ idClock = 1
    /\ \E blocks \in BlockLists : manualText = RenderText(blocks, 1)
    /\ parsedQuestions = <<>>
    /\ aiRequests = 0

\* handleGenerateTest after parseManualQuestions returned
ImportParsed(questions) ==
    /\ parsedQuestions' = questions
    /\ IF questions = <<>>
       THEN /\ toast' = "error"
            /\ UNCHANGED <<currentTest, view, idClock>>
       ELSE /\ currentTest' =
                  [id |-> idClock, questions |-> questions,
                   duration |-> FormDuration,
                   marksPerQuestion |-> DefaultMarks * MarkDen,
                   negativeMarking |-> DefaultNegative * MarkDen]
            /\ idClock' = idClock + 1
            /\ toast' = "success"
            /\ view' = "edit"

\* handleGenerateTest on the trimmed text of the manual input
ImportText(text) ==
    IF text = ""
    THEN /\ toast' = "error"
         /\ UNCHANGED <<currentTest, view, idClock, parsedQuestions>>
    ELSE ImportParsed(parseManualQuestions(text))

\* handleGenerateTest with the manual tab active and the marks and negative
\* fields left empty
handleGenerateTest ==
    /\ view = "main"
    /\ ImportText(Trim(manualText))
    /\ fault' = FALSE
    /\ UNCHANGED <<tests, performanceHistory, currentQuestionIndex, userAnswers,
                   questionStatuses, timerInterval, timeRemaining, timePerQuestion,
                   sinceQuestionStart, selectedOption, manualText, aiRequests>>

NextParse == handleGenerateTest

SpecParse == InitParse /\ [][NextParse]_vars

\* ----------------------------------------------------------- pasted texts
\* SpecText: handleGenerateTest on the manual tab, for texts of up to MaxLines
\* lines taken, in order, from TextLines.

\* the lines a text is made of, and whether a line starts with a question
\* number: the five lines of the block "1. What is 2+2? ..." (one question in the
\* documented format), a question with its options and answer on one line, one
\* with five options, a line of plain text and an empty line
TextLines ==
    <<[line |-> "1. What is 2+2?", numbered |-> TRUE],
      [line |-> "a) 3 b) 4 c) 5 d) 6", numbered |-> FALSE],
      [line |-> "Answer: b", numbered |-> FALSE],
      [line |-> "Explanation: Basic math.", numbered |-> FALSE],
      [line |-> "Subject: Math | Topic: Arithmetic", numbered |-> FALSE],
      [line |-> "7. Pick the even one: a) 3 b) 4 Ans: 2", numbered |-> TRUE],
      [line |-> "Q9. Pick the prime a) 7 b) 8 c) 9 d) 6 a) 5 Answer - D",
       numbered |-> TRUE],
      [line |-> "Some notes of the lecture", numbered |-> FALSE],
      [line |-> "", numbered |-> FALSE]>>

\* the lines of TextLines picked for a text
LineChoices == {S \in SUBSET (1..Len(TextLines)) : Cardinality(S) <= MaxLines}

\* the picked lines from line k on, each line after the first on a new line
RECURSIVE JoinLines(_, _, _)
JoinLines(S, k, first) ==
    IF k > Len(TextLines) THEN ""
    ELSE IF k \in S
    THEN (IF first THEN "" ELSE "\n") \o TextLines[k].line
         \o JoinLines(S, k + 1, FALSE)
    ELSE JoinLines(S, k + 1, first)

PastedText(S) == JoinLines(S, 1, TRUE)

InitText ==
    /\ tests = <<>>
    /\ performanceHistory = <<>>
    /\ currentTest = nullTest
    /\ currentQuestionIndex = 0
    /\ userAnswers = <<>>
    /\ questionStatuses = <<>>
    /\ timerInterval = null
    /\ timeRemaining = 0
    /\ timePerQuestion = <<>>
    /\ sinceQuestionStart = 0
    /\ selectedOption = null
    /\ view = "main"
    /\ toast = "none"
    /\ fault = FALSE
    /\ idClock = 1
    /\ \E S \in LineChoices : manualText = PastedText(S)
    /\ parsedQuestions = <<>>
    /\ aiRequests = 0

NextText == handleGenerateTest

SpecText == InitText /\ [][NextText]_vars

\* ------------------------------------------------------- answer labels
\* SpecAnswer: handleGenerateTest on the manual tab, for texts of one line: a
\* numbered question with its options, followed or not by an answer label and
\* an answer key.

AnswerStems ==
    <<"7. Pick the even one: a) 3 b) 4 c) 5 d) 6",
      "Q9. What do Romans call this? a) 3 b) 4",
      "Q6) Which is prime? (a) 7 (b) 8">>

AnswerLabels == <<" Answer: ", " Ans: ", " Answer - ", " ans.">>

AnswerKeys == "abcdABCD1234"

\* the line of stem s, label l and the k-th key; without a label when k = 0
LabelledText(s, l, k) ==
    IF k = 0 THEN AnswerStems[s]
    ELSE AnswerStems[s] \o AnswerLabels[l] \o SubSeq(AnswerKeys, k, k)

LabelledChoices ==
    {c \in (1..MaxStems) \X (1..Len(AnswerLabels)) \X (0..Len(AnswerKeys)) :
        c[3] = 0 => c[2] = 1}

InitAnswer ==
    /\ tests = <<>>
    /\ performanceHistory = <<>>
    /\ currentTest = nullTest
    /\ currentQuestionIndex = 0
    /\ userAnswers = <<>>
    /\ questionStatuses = <<>>
    /\ timerInterval = null
    /\ timeRemaining = 0
    /\ timePerQuestion = <<>>
    /\ sinceQuestionStart = 0
    /\ selectedOption = null
    /\ view = "main"
    /\ toast = "none"
    /\ fault = FALSE
    /\ idClock = 1
    /\ \E c \in LabelledChoices : manualText = LabelledText(c[1], c[2], c[3])
    /\ parsedQuestions = <<>>
    /\ aiRequests = 0

NextAnswer == handleGenerateTest

SpecAnswer == InitAnswer /\ [][NextAnswer]_vars

\* ------------------------------------------------------- the two sources
\* SpecGenerate: the Generate button with the manual tab active (bulk import)
\* and with the topic tab active (AI generation), on the texts of SpecText.

\* JSON.parse(response.text) of the AI response: no list of questions (no
\* response text, or an empty array), or a list of one question
AIResponses ==
    {<<>>,
     <<[question |-> "Which is the largest planet?",
        options |-> <<"Earth", "Mars", "Jupiter", "Venus">>,
        answer |-> 2,
        explanation |-> "Jupiter is the largest planet.",
        subject |-> "Science",
        topic |-> "Solar System"]>>}

\* handleGenerateTest with the topic tab active, a topic entered and the AI
\* service available; response is what ai.models.generateContent resolves to
handleGenerateTopic(response) ==
    /\ view = "main"
    /\ aiRequests < MaxRequests
    /\ aiRequests' = aiRequests + 1
    /\ IF response = <<>>
       THEN /\ toast' = "error"
            /\ UNCHANGED <<currentTest, view, idClock>>
       ELSE /\ currentTest' =
                  [id |-> idClock, questions |-> response,
                   duration |-> FormDuration,
                   marksPerQuestion |-> DefaultMarks * MarkDen,
                   negativeMarking |-> DefaultNegative * MarkDen]
            /\ idClock' = idClock + 1
            /\ toast' = "none"
            /\ view' = "edit"
    /\ fault' = FALSE
    /\ UNCHANGED <<tests, performanceHistory, currentQuestionIndex, userAnswers,
                   questionStatuses, timerInterval, timeRemaining, timePerQuestion,
                   sinceQuestionStart, selectedOption, manualText, parsedQuestions>>

NextGenerate ==
    \/ handleGenerateTest
    \/ \E response \in AIResponses : handleGenerateTopic(response)

SpecGenerate == InitText /\ [][NextGenerate]_vars

\* -------------------------------------------------------------- the editor
\* The forms of the edit view are read into currentTest (syncCurrentTestFromDOM)
\* at the start of every handler of the view, so a change made in a form is
\* modelled as a change of currentTest.

\* a[i], 0-based, removed: a.splice(i, 1)
Splice(a, i) == SubSeq(a, 1, i) \o SubSeq(a, i + 2, Len(a))

\* the correct-answer radio of question i of the edit view is set to a
EditAnswer(i, a) ==
    /\ view = "edit"
    /\ currentTest # nullTest
    /\ i \in QuestionIndexes(currentTest)
    /\ currentTest.questions[i + 1].answer # a
    /\ currentTest' =
          [currentTest EXCEPT !.questions[i + 1].answer = a]
    /\ toast' = "none"
    /\ fault' = FALSE
    /\ UNCHANGED <<tests, performanceHistory, currentQuestionIndex, userAnswers,
                   questionStatuses, timerInterval, timeRemaining, timePerQuestion,
                   sinceQuestionStart, selectedOption, view, idClock, parserVars>>

\* editableQuestionsContainer click handler, .delete-q of question i, the
\* dialog confirmed
DeleteQuestion(i) ==
    /\ view = "edit"
    /\ currentTest # nullTest
    /\ i \in QuestionIndexes(currentTest)
    /\ currentTest' =
          [currentTest EXCEPT !.questions = Splice(currentTest.questions, i)]
    /\ toast' = "none"
    /\ fault' = FALSE
    /\ UNCHANGED <<tests, performanceHistory, currentQuestionIndex, userAnswers,
                   questionStatuses, timerInterval, timeRemaining, timePerQuestion,
                   sinceQuestionStart, selectedOption, view, idClock, parserVars>>

\* the question addQuestionBtn adds
newQuestion ==
    [question |-> "", options |-> <<"", "", "", "">>, answer |-> 0,
     explanation |-> "", subject |-> "", topic |-> ""]

\* addQuestionBtn click handler
AddQuestion ==
    /\ view = "edit"
    /\ currentTest # nullTest
    /\ Len(currentTest.questions) < MaxQuestions
    /\ currentTest' =
          [currentTest EXCEPT !.questions = Append(currentTest.questions, newQuestion)]
    /\ toast' = "none"
    /\ fault' = FALSE
    /\ UNCHANGED <<tests, performanceHistory, currentQuestionIndex, userAnswers,
                   questionStatuses, timerInterval, timeRemaining, timePerQuestion,
                   sinceQuestionStart, selectedOption, view, idClock, parserVars>>

\* tests.findIndex(t => t.id === id), 0-based, -1 when there is none
FindIndex(library, id) ==
    LET is == {i \in 1..Len(library) : library[i].id = id}
    IN  IF is = {} THEN -1 ELSE (CHOOSE i \in is : \A j \in is : i <= j) - 1

\* the library after saveTestBtn stored test
SavedLibrary(library, test) ==
    IF FindIndex(library, test.id) > -1
    THEN [library EXCEPT ![FindIndex(library, test.id) + 1] = test]
    ELSE <<test>> \o library

\* saveTestBtn click handler
SaveTest ==
    /\ view = "edit"
    /\ currentTest # nullTest
    /\ Len(SavedLibrary(tests, currentTest)) <= MaxTests
    /\ tests' = SavedLibrary(tests, currentTest)
    /\ toast' = "success"
    /\ view' = "allTests"
    /\ fault' = FALSE
    /\ UNCHANGED <<performanceHistory, attemptVars, idClock, parserVars>>

\* allTestsContainer click handler, .edit-btn of the i-th listed test:
\* handleEditTest
EditFromList(i) ==
    /\ view = "allTests"
    /\ i \in 1..Len(tests)
    /\ currentTest' = tests[i]
    /\ view' = "edit"
    /\ toast' = "none"
    /\ fault' = FALSE
    /\ UNCHANGED <<tests, performanceHistory, currentQuestionIndex, userAnswers,
                   questionStatuses, timerInterval, timeRemaining, timePerQuestion,
                   sinceQuestionStart, selectedOption, idClock, parserVars>>

\* allTestsContainer click handler, .delete-btn of the i-th listed test:
\* handleDeleteTest, the dialog confirmed
DeleteFromList(i) ==
    /\ view = "allTests"
    /\ i \in 1..Len(tests)
    /\ tests' = SelectSeq(tests, LAMBDA t : t.id # tests[i].id)
    /\ toast' = "none"
    /\ fault' = FALSE
    /\ UNCHANGED <<performanceHistory, attemptVars, view, idClock, parserVars>>

\* SpecEditor: a test is created by a bulk import of one block in the documented
\* format, then edited, saved, edited again and deleted.
InitEditor ==
    /\ tests = <<>>
    /\ performanceHistory = <<>>
    /\ currentTest = nullTest
    /\ currentQuestionIndex = 0
    /\ userAnswers = <<>>
    /\ questionStatuses = <<>>
    /\ timerInterval = null
    /\ timeRemaining = 0
    /\ timePerQuestion = <<>>
    /\ sinceQuestionStart = 0
    /\ selectedOption = null
    /\ view = "main"
    /\ toast = "none"
    /\ fault = FALSE
    /\ idClock = 1
    /\ \E b \in WellFormedBlocks : manualText = RenderText(<<b>>, 1)
    /\ parsedQuestions = <<>>
    /\ aiRequests = 0

NextEditor ==
    \/ handleGenerateTest
    \/ \E i \in 0..(MaxQuestions - 1) : DeleteQuestion(i)
    \/ AddQuestion
    \/ SaveTest
    \/ \E i \in 1..MaxTests : EditFromList(i)
    \/ \E i \in 1..MaxTests : DeleteFromList(i)

SpecEditor == InitEditor /\ [][NextEditor]_vars

\* SpecLibrary: the test of the session library is attempted, edited, saved
\* again and deleted, in any order.
NextLibrary ==
    \/ \E i \in 1..MaxTests : StartFromList(i)
    \/ \E o \in 0..MaxOptionIndex : SelectOption(o)
    \/ SubmitClick
    \/ TimerTick
    \/ BackToList
    \/ \E i \in 1..MaxTests : EditFromList(i)
    \/ \E i \in 0..(MaxQuestions - 1), a \in 0..MaxOptionIndex : EditAnswer(i, a)
    \/ \E i \in 0..(MaxQuestions - 1) : DeleteQuestion(i)
    \/ SaveTest
    \/ \E i \in 1..MaxTests : DeleteFromList(i)

\* the list of tests is shown
InitLibrary ==
    /\ tests = SessionLibrary
    /\ performanceHistory = <<>>
    /\ currentTest = nullTest
    /\ currentQuestionIndex = 0
    /\ userAnswers = <<>>
    /\ questionStatuses = <<>>
    /\ timerInterval = null
    /\ timeRemaining = 0
    /\ timePerQuestion = <<>>
    /\ sinceQuestionStart = 0
    /\ selectedOption = null
    /\ view = "allTests"
    /\ toast = "none"
    /\ fault = FALSE
    /\ idClock = 2
    /\ manualText = ""
    /\ parsedQuestions = <<>>
    /\ aiRequests = 0

SpecLibrary == InitLibrary /\ [][NextLibrary]_vars

TypeOK ==
    /\ view \in {"main", "allTests", "attempt", "report"}
    /\ timerInterval \in {null, TimerHandle}
    /\ fault \in BOOLEAN
    /\ Len(tests) <= MaxTests

\* C1: for every text of N well-formed blocks (numbered stem, options a) to d),
\* an Answer line, in the documented format), parseManualQuestions returns
\* exactly N questions and the k-th question has the stem of the k-th block.
C1_OneQuestionPerBlock ==
    toast \in {"success", "error"} =>
        \A blocks \in BlockLists :
            manualText = RenderText(blocks, 1) =>
                /\ Len(parsedQuestions) = Len(blocks)
                /\ \A k \in 1..Len(blocks) :
                      parsedQuestions[k].question = BlockContents[blocks[k].content].stem

\* =================================================================== claims
\* the test of the attempt under way, or of the attempt just submitted
AttemptTest ==
    IF currentTest # nullTest THEN currentTest
    ELSE IF view = "report" THEN performanceHistory[1].fullTest
    ELSE nullTest

\* C2: after startTest and after every later operation of the attempt, userAnswers
\* and questionStatuses both have as many entries as the test has questions, for
\* every test of the library.
C2_LengthsEqualQuestionCount ==
    AttemptTest # nullTest =>
        /\ Len(userAnswers) = Len(AttemptTest.questions)
        /\ Len(questionStatuses) = Len(AttemptTest.questions)

\* C3: in every stored TestAttempt each question is counted in exactly one of
\* unanswered (answer null), correct (answer equal to the question's correct
\* index) and incorrect (any other answer), so the three counts add up to
\* totalQuestions, the number of questions.
C3_ExactlyOneBucket ==
    \A k \in 1..Len(performanceHistory) :
        LET a == performanceHistory[k]
            qs == a.fullTest.questions
            n == Len(qs)
        IN  /\ a.totalQuestions = n
            /\ a.unanswered = Cardinality({i \in 1..n : a.userAnswers[i] = null})
            /\ a.correctAnswers =
                  Cardinality({i \in 1..n : a.userAnswers[i] = qs[i].answer})
            /\ a.incorrectAnswers =
                  Cardinality({i \in 1..n : a.userAnswers[i] # null
                                             /\ a.userAnswers[i] # qs[i].answer})
            /\ a.correctAnswers + a.incorrectAnswers + a.unanswered = n

\* an attempt is stored with a wrong and an unanswered question
C3_Witness ==
    /\ performanceHistory # <<>>
    /\ performanceHistory[1].incorrectAnswers >= 1
    /\ performanceHistory[1].unanswered >= 1

\* C4 (as claimed): the stored score is 0 when questionCount * marksPerQuestion
\* is not positive and otherwise max(0, rawScore / maxScore * 100) with
\* rawScore = correct * marksPerQuestion - incorrect * negativeMarking.
C4_ScoreFormula ==
    \A k \in 1..Len(performanceHistory) :
        LET a == performanceHistory[k]
            m == a.fullTest.marksPerQuestion
            maxScore == a.totalQuestions * m
            raw == a.correctAnswers * m - a.incorrectAnswers * a.fullTest.negativeMarking
        IN  IF maxScore <= 0 \/ raw < 0
            THEN a.score[1] = 0
            ELSE a.score[2] > 0 /\ a.score[1] * maxScore = 100 * raw * a.score[2]

\* C4 (amended): the same formula holds with m in place of marksPerQuestion,
\* where m is marksPerQuestion when that is not 0 and 1 mark when it is 0.
C4_ScoreFormulaDefaultedMarks ==
    \A k \in 1..Len(performanceHistory) :
        LET a == performanceHistory[k]
            m == IF a.fullTest.marksPerQuestion = 0 THEN MarkDen
                 ELSE a.fullTest.marksPerQuestion
            maxScore == a.totalQuestions * m
            raw == a.correctAnswers * m - a.incorrectAnswers * a.fullTest.negativeMarking
        IN  IF maxScore <= 0 \/ raw < 0
            THEN a.score[1] = 0
            ELSE a.score[2] > 0 /\ a.score[1] * maxScore = 100 * raw * a.score[2]

\* 10 questions, 2 marks each, 1/2 mark off per wrong answer, 6 correct and
\* 3 incorrect: the stored score is 52.5 = 105/2
C4_Witness ==
    /\ performanceHistory # <<>>
    /\ LET a == performanceHistory[1]
       IN  /\ a.totalQuestions = 10
           /\ a.fullTest.marksPerQuestion = 2 * MarkDen
           /\ 2 * a.fullTest.negativeMarking = MarkDen
           /\ a.correctAnswers = 6
           /\ a.incorrectAnswers = 3
           /\ a.unanswered = 1
           /\ a.score = <<105, 2>>

C6_StateAfterStartTest ==
    [][\A t \in 1..MaxTests :
          StartFromList(t) =>
              LET n == Len(tests[t].questions) IN
              /\ currentQuestionIndex' = 0
              /\ n >= 1 => questionStatuses'[1] = "notAnswered"
              /\ \A i \in 1..(n - 1) : questionStatuses'[i + 1] = "notVisited"
              /\ \A i \in 0..(n - 1) : userAnswers'[i + 1] = null
              /\ \A i \in 0..(n - 1) : timePerQuestion'[i + 1] = 0
              /\ timeRemaining' * tests[t].duration[2]
                    = tests[t].duration[1] * 60]_vars

\* an attempt of a test with several questions has just been started
C6_Witness ==
    /\ view = "attempt"
    /\ Len(currentTest.questions) >= 2
    /\ currentQuestionIndex = 0
    /\ questionStatuses = <<"notAnswered">> \o
           [i \in 1..(Len(currentTest.questions) - 1) |-> "notVisited"]
    /\ timeRemaining >= 1
    /\ timeRemaining * currentTest.duration[2] = currentTest.duration[1] * 60
    /\ sinceQuestionStart = 0
    /\ selectedOption = null

\* C7: a navigation to an index below 0 or past the last question leaves
\* currentIndex unchanged and raises no fault, and 0 <= currentIndex <
\* questionCount holds in every state of an attempt.
C7_NavigationStaysInBounds ==
    [][/\ ( /\ currentTest # nullTest
            /\ \/ (SaveNext \/ MarkReview)
                     /\ currentQuestionIndex + 1 >= Len(currentTest.questions)
               \/ Previous /\ currentQuestionIndex - 1 < 0 )
          => /\ currentQuestionIndex' = currentQuestionIndex
             /\ fault' = FALSE
             /\ view' = "attempt"
       /\ view' = "attempt"
          => /\ currentTest' # nullTest
             /\ 0 <= currentQuestionIndex'
             /\ currentQuestionIndex' < Len(currentTest'.questions)]_vars

\* Previous was pressed on the first question: the boundary notice shows and the
\* index is still 0
C7_Witness ==
    /\ view = "attempt"
    /\ toast = "info"
    /\ currentQuestionIndex = 0
    /\ Len(currentTest.questions) >= 2
    /\ selectedOption # null
    /\ userAnswers[1] = selectedOption
    /\ fault = FALSE

\* C8: mark-for-review on question i sets statuses[i] to markedAndAnswered when an
\* answer is recorded or selected for question i and to marked when none is, and
\* then moves currentIndex to i + 1 when i is not the last question.
C8_MarkFollowsAnswer ==
    [][MarkReview /\ currentTest # nullTest =>
          LET i == currentQuestionIndex IN
          /\ questionStatuses'[i + 1] =
                IF selectedOption # null \/ userAnswers[i + 1] # null
                THEN "markedAndAnswered" ELSE "marked"
          /\ i + 1 < Len(currentTest.questions) => currentQuestionIndex' = i + 1]_vars

\* C9: a timer tick decreases the remaining time by exactly 1; select, clear,
\* navigate and mark do not change it; the remaining time is never negative; the
\* tick that brings it to 0 stops the timer and submits.
C9_RemainingTime ==
    [][/\ TimerTick => timeRemaining' = timeRemaining - 1
       /\ ( \/ \E o \in 0..MaxOptionIndex : SelectOption(o)
            \/ ClearResponse \/ SaveNext \/ Previous \/ MarkReview
            \/ \E j \in 0..(MaxQuestions - 1) : PaletteClick(j) )
          => timeRemaining' = timeRemaining
       /\ timeRemaining' >= 0
       /\ TimerTick /\ timeRemaining' = 0
          => /\ timerInterval' = null
             /\ Len(performanceHistory') = Len(performanceHistory) + 1]_vars

\* C10: when the timer runs out on question k with option s selected (or none),
\* an attempt is stored at once whose answers[k] is s (null if none), whose time
\* for question k includes the time since question k was entered, whose other
\* answers and times are the recorded ones, and whose counts are those of the
\* stored answers; no confirmation is asked.
C10_ForcedSubmissionCommits ==
    [][TimerTick /\ timeRemaining - 1 <= 0 =>
          /\ Len(performanceHistory') = Len(performanceHistory) + 1
          /\ view' = "report"
          /\ timerInterval' = null
          /\ LET a == performanceHistory'[1]
                 k == currentQuestionIndex
                 qs == currentTest.questions
             IN  /\ a.fullTest = currentTest
                 /\ a.userAnswers[k + 1] = selectedOption
                 /\ a.timePerQuestion[k + 1]
                       = timePerQuestion[k + 1] + sinceQuestionStart + 1
                 /\ \A i \in 1..Len(qs) :
                       i # k + 1 => /\ a.userAnswers[i] = userAnswers[i]
                                    /\ a.timePerQuestion[i] = timePerQuestion[i]
                 /\ a.correctAnswers =
                       Cardinality({i \in 1..Len(qs) : a.userAnswers[i] = qs[i].answer})
                 /\ a.unanswered =
                       Cardinality({i \in 1..Len(qs) : a.userAnswers[i] = null})
                 /\ a.incorrectAnswers =
                       Len(qs) - a.correctAnswers - a.unanswered]_vars

\* the timer ran out on a question whose selection differed from the recorded
\* answer: the stored attempt holds the selection and the time spent on it
C10_Witness ==
    /\ view = "report"
    /\ toast = "warning"
    /\ performanceHistory # <<>>
    /\ LET a == performanceHistory[1]
           k == currentQuestionIndex
       IN  /\ a.userAnswers[k + 1] # null
           /\ a.userAnswers[k + 1] = selectedOption
           /\ a.timePerQuestion[k + 1] >= 2
           /\ a.correctAnswers >= 1

\* C11: whatever the order of timer ticks and user actions, a step stores at most
\* one TestAttempt; it is stored by an attempt that was started and is not over
\* (a test is set, the attempt view shows, the timer runs) and it ends that
\* attempt (no test, no timer, the report shows), so that no tick and no action
\* of the attempt can follow; only startTest opens the attempt view; and the records
\* stored earlier are never changed.
C11_AtMostOneRecordPerAttempt ==
    [][/\ \/ performanceHistory' = performanceHistory
          \/ /\ Len(performanceHistory') = Len(performanceHistory) + 1
             /\ Tail(performanceHistory') = performanceHistory
             /\ currentTest # nullTest
             /\ view = "attempt"
             /\ timerInterval # null
             /\ performanceHistory'[1].fullTest = currentTest
             /\ currentTest' = nullTest
             /\ timerInterval' = null
             /\ view' = "report"
       /\ currentTest' = nullTest => timerInterval' = null /\ view' # "attempt"
       /\ view # "attempt" /\ view' = "attempt"
             => \E i \in 1..MaxTests : StartFromList(i)]_vars

\* a second attempt was stored by the timer after its abandon dialog had been
\* open, and the record of the first attempt is still there
C11_Witness ==
    /\ Len(performanceHistory) = 2
    /\ view = "report"
    /\ toast = "warning"
    /\ performanceHistory[1].timePerQuestion[1] >= 2
    /\ performanceHistory[2].timeTaken = 0

\* C12: a confirmed abandon leaves the timer stopped, no test set and the
\* performance history as it is; the history is not changed while an attempt is
\* under way, so it is the history of before the attempt; and while no test is
\* set no event stores a TestAttempt.
C12_AbandonStoresNothing ==
    [][/\ \A w \in 0..MaxDialogWait :
             AbandonDialog(w, TRUE) =>
                 /\ timerInterval' = null
                 /\ currentTest' = nullTest
                 /\ view' # "attempt"
                 /\ performanceHistory' = performanceHistory
       /\ view = "attempt" /\ view' = "attempt"
             => performanceHistory' = performanceHistory
       /\ currentTest = nullTest => performanceHistory' = performanceHistory]_vars

\* an attempt was abandoned with an option selected that was never saved, after
\* an earlier attempt had been stored
C12_Witness ==
    /\ view = "allTests"
    /\ currentTest = nullTest
    /\ timerInterval = null
    /\ Len(performanceHistory) = 1
    /\ Len(userAnswers) = 1
    /\ selectedOption # null
    /\ userAnswers[1] = null

\* C13: when handleSubmitTest runs (from the Submit button or from the timer)
\* while currentTest is missing, the performance history is unchanged, the main
\* view is shown, an error notice is shown and no exception escapes.
C13_SubmitWithoutTest ==
    [][(SubmitClick \/ (TimerTick /\ timeRemaining - 1 <= 0))
          /\ currentTest = nullTest
          => /\ performanceHistory' = performanceHistory
             /\ view' = "main"
             /\ toast' = "error"
             /\ fault' = FALSE]_vars

\* a submission without a test has ended on the main view with the error notice,
\* the history still holding its one record
C13_Witness ==
    /\ currentTest = nullTest
    /\ view = "main"
    /\ toast = "error"
    /\ fault = FALSE
    /\ timerInterval = null
    /\ Len(performanceHistory) = 1

\* C14: every test stored in the library has at least one question, after any
\* sequence of create (bulk import), add-question, delete-question, edit and
\* save operations of the editor.
C14_StoredTestsHaveQuestions ==
    \A i \in 1..Len(tests) : Len(tests[i].questions) >= 1

\* C15: no operation changes a stored TestAttempt or its embedded fullTest: after
\* every step (an edit, a save, a delete of a test, a start or a submission of
\* an attempt) the history ends with the records it held, unchanged.
C15_StoredAttemptsUnchanged ==
    [][/\ Len(performanceHistory') >= Len(performanceHistory)
       /\ \A k \in 1..Len(performanceHistory) :
             performanceHistory'[k + Len(performanceHistory')
                                   - Len(performanceHistory)]
                 = performanceHistory[k]]_vars

\* the test was attempted, edited and saved, and attempted again: the history
\* holds two attempts of the same test with different embedded tests, the older
\* one embedding the test as it was
C15_Witness ==
    /\ Len(performanceHistory) = 2
    /\ performanceHistory[1].testId = performanceHistory[2].testId
    /\ performanceHistory[1].fullTest # performanceHistory[2].fullTest
    /\ performanceHistory[2].fullTest = SessionLibrary[1]
    /\ tests = <<performanceHistory[1].fullTest>>

\* C16: every question parseManualQuestions returns has exactly 4 options, none
\* of them empty, the options found first and the placeholders "Option k" after
\* them, options beyond the fourth dropped, and an answer index in 0..3.
C16_FourOptionsAnswerInRange ==
    /\ \A k \in 1..Len(parsedQuestions) :
          LET q == parsedQuestions[k]
              placeholder(j) == "Option " \o SubSeq("1234", j, j)
          IN  /\ Len(q.options) = 4
              /\ \A j \in 1..4 : q.options[j] # ""
              /\ \A j \in 1..3 :
                    q.options[j] = placeholder(j) => q.options[j + 1] = placeholder(j + 1)
              /\ q.answer \in 0..3
    /\ toast = "success" /\ manualText = TextLines[6].line
          => parsedQuestions[1].options = <<"3", "4", "Option 3", "Option 4">>
    /\ toast = "success" /\ manualText = TextLines[7].line
          => parsedQuestions[1].options = <<"7", "8", "9", "6">>

\* a text was parsed into a question with two options found and two placeholders
\* and a question whose fifth option was dropped
C16_Witness ==
    /\ toast = "success"
    /\ \E k \in 1..Len(parsedQuestions) :
          /\ parsedQuestions[k].options = <<"3", "4", "Option 3", "Option 4">>
          /\ parsedQuestions[k].answer = 1
    /\ \E k \in 1..Len(parsedQuestions) :
          /\ parsedQuestions[k].options = <<"7", "8", "9", "6">>
          /\ parsedQuestions[k].answer = 3

\* C17: the block "1. What is 2+2?" / "a) 3 b) 4 c) 5 d) 6" / "Answer: b" /
\* "Explanation: Basic math." / "Subject: Math | Topic: Arithmetic" is parsed into
\* one question: the stem without its number, the four option texts in order,
\* the index of the answer letter, and the labelled explanation, subject and
\* topic.
C17_DocumentedBlockParsed ==
    toast \in {"success", "error"} /\ manualText = PastedText(1..5) =>
        parsedQuestions =
            <<[question |-> "What is 2+2?",
               options |-> <<"3", "4", "5", "6">>,
               answer |-> 1,
               explanation |-> "Basic math.",
               subject |-> "Math",
               topic |-> "Arithmetic"]>>

\* C18: for every text without any question number, parseManualQuestions returns
\* the empty sequence and throws nothing.
C18_NoNumberNoQuestion ==
    toast \in {"success", "error"} =>
        \A S \in LineChoices :
            (manualText = PastedText(S) /\ \A k \in S : ~TextLines[k].numbered)
                => parsedQuestions = <<>> /\ fault = FALSE

\* the questions of the lines S of TextLines from line k on, each line parsed as
\* a text of its own
RECURSIVE LineByLine(_, _)
LineByLine(S, k) ==
    IF k > Len(TextLines) THEN <<>>
    ELSE (IF k \in S THEN parseManualQuestions(TextLines[k].line) ELSE <<>>)
         \o LineByLine(S, k + 1)

\* C19: parseManualQuestions throws for no text, and the questions of a text are
\* the questions of its segments, in the order of the segments: a segment that
\* is rejected takes nothing from, and changes nothing in, what the other
\* segments give (every non-empty line of a pasted text is a segment).
C19_SegmentsIndependent ==
    /\ fault = FALSE
    /\ toast \in {"success", "error"} =>
          \A S \in LineChoices :
              manualText = PastedText(S) =>
                  /\ Len(questionBlocks(Trim(manualText)))
                        = Cardinality({k \in S : TextLines[k].line # ""})
                  /\ parsedQuestions = LineByLine(S, 1)

\* a text of three segments or more was parsed, a rejected segment between two
\* that gave a question, and both questions were returned
C19_Witness ==
    /\ toast = "success"
    /\ Len(parsedQuestions) >= 2
    /\ \E S \in LineChoices :
          /\ manualText = PastedText(S)
          /\ \E i, j, k \in S :
                /\ i < j /\ j < k
                /\ parseManualQuestions(TextLines[i].line) # <<>>
                /\ parseManualQuestions(TextLines[j].line) = <<>>
                /\ parseManualQuestions(TextLines[k].line) # <<>>

\* C21: a bulk import that parses no question shows an error notice, creates no
\* test, lets no exception escape, and then goes on to the AI generation (one
\* AI request is made); a bulk import that parses a question makes no AI
\* request.
C21_EmptyImportFallsBackToAI ==
    [][handleGenerateTest /\ Trim(manualText) # ""
          => /\ fault' = FALSE
             /\ IF parsedQuestions' = <<>>
                THEN /\ toast' = "error"
                     /\ currentTest' = currentTest
                     /\ tests' = tests
                     /\ aiRequests' = aiRequests + 1
                ELSE aiRequests' = aiRequests]_vars

\* C22: every navigation (Save & Next, Previous, a palette button, the
\* navigation of Mark for Review; within the questions or not) and every
\* submission (manual or forced) commits the outgoing question: its stored
\* answer becomes the selected option (null if none); with an answer its status
\* becomes markedAndAnswered if it was marked or markedAndAnswered and answered
\* otherwise; without an answer it becomes notAnswered unless it was marked or
\* markedAndAnswered, and is then left as it was.
C22_OutgoingQuestionCommitted ==
    [][LET i == currentQuestionIndex + 1
           marking == MarkReview
           was == IF marking THEN MarkedStatus(questionStatuses[i])
                             ELSE questionStatuses[i]
           flagged == was \in {"marked", "markedAndAnswered"}
       IN  (/\ view = "attempt"
            /\ currentTest # nullTest
            /\ \/ SaveNext \/ Previous \/ marking
               \/ \E j \in QuestionIndexes(currentTest) : PaletteClick(j)
               \/ SubmitClick
               \/ TimerTick /\ view' = "report")
           => /\ userAnswers'[i] = selectedOption
              /\ questionStatuses'[i] =
                    IF selectedOption # null
                    THEN (IF flagged THEN "markedAndAnswered" ELSE "answered")
                    ELSE (IF flagged THEN was ELSE "notAnswered")]_vars

\* question 1 was marked with an option selected and the last question was
\* marked with none, the second navigation being past the last question
C22_Witness ==
    /\ view = "attempt"
    /\ toast = "info"
    /\ Len(questionStatuses) >= 2
    /\ questionStatuses[1] = "markedAndAnswered" /\ userAnswers[1] # null
    /\ questionStatuses[Len(questionStatuses)] = "marked"
    /\ userAnswers[Len(userAnswers)] = null

\* C23: a navigation to a question newIndex of the test sets the current index
\* to newIndex, changes the incoming question's status only from notVisited to
\* notAnswered (any other status is kept), and leaves the answer and the status
\* of every question other than the outgoing and the incoming one unchanged.
C23_NavigationFrame ==
    [][\A newIndex \in 0..(Len(questionStatuses) - 1) :
          LET idx == currentQuestionIndex
          IN  (/\ view = "attempt"
               /\ currentTest # nullTest
               /\ newIndex # idx
               /\ \/ newIndex = idx + 1 /\ (SaveNext \/ MarkReview)
                  \/ newIndex = idx - 1 /\ Previous
                  \/ PaletteClick(newIndex))
              => /\ currentQuestionIndex' = newIndex
                 /\ questionStatuses'[newIndex + 1] =
                       IF questionStatuses[newIndex + 1] = "notVisited"
                       THEN "notAnswered" ELSE questionStatuses[newIndex + 1]
                 /\ Len(questionStatuses') = Len(questionStatuses)
                 /\ Len(userAnswers') = Len(userAnswers)
                 /\ \A k \in 1..Len(questionStatuses) :
                       k \notin {idx + 1, newIndex + 1}
                           => /\ questionStatuses'[k] = questionStatuses[k]
                              /\ userAnswers'[k] = userAnswers[k]]_vars

\* Previous from question 3 to question 2, which was marked with an answer and
\* kept that status; question 1 is answered
C23_Witness ==
    /\ view = "attempt"
    /\ toast = "none"
    /\ currentQuestionIndex = 1
    /\ Len(questionStatuses) >= 3
    /\ questionStatuses[1] = "answered" /\ userAnswers[1] # null
    /\ questionStatuses[2] = "markedAndAnswered" /\ selectedOption = userAnswers[2]
    /\ questionStatuses[3] = "marked" /\ userAnswers[3] = null

\* C24: Clear Response removes the selection of the current question and
\* changes no status, not the current index and no other question's answer; at
\* the next navigation or submission the cleared question's answer becomes null
\* and its status becomes notAnswered if it was answered or notAnswered, and
\* stays as it was if it was marked or markedAndAnswered (for the navigation of
\* Mark for Review, "was" is the status the handler sets before it navigates).
C24_ClearThenReconcile ==
    [][LET i == currentQuestionIndex + 1
           marking == MarkReview
           was == IF marking THEN MarkedStatus(questionStatuses[i])
                             ELSE questionStatuses[i]
       IN  /\ ClearResponse
              => /\ selectedOption' = null
                 /\ questionStatuses' = questionStatuses
                 /\ currentQuestionIndex' = currentQuestionIndex
                 /\ Len(userAnswers') = Len(userAnswers)
                 /\ \A k \in 1..Len(userAnswers) :
                       k # i => userAnswers'[k] = userAnswers[k]
           /\ (/\ view = "attempt"
               /\ currentTest # nullTest
               /\ selectedOption = null
               /\ \/ SaveNext \/ Previous \/ marking
                  \/ \E j \in QuestionIndexes(currentTest) : PaletteClick(j)
                  \/ SubmitClick
                  \/ TimerTick /\ view' = "report")
              => /\ userAnswers'[i] = null
                 /\ questionStatuses'[i] =
                       IF was \in {"answered", "notAnswered"}
                       THEN "notAnswered" ELSE was]_vars

\* the answer of question 1, marked with an answer, was cleared and question 1
\* was left: its answer is null and it is still markedAndAnswered; the answer
\* of question 2 was cleared and not yet committed
C24_Witness ==
    /\ view = "attempt"
    /\ currentQuestionIndex = 1
    /\ questionStatuses[1] = "markedAndAnswered" /\ userAnswers[1] = null
    /\ questionStatuses[2] = "answered" /\ userAnswers[2] # null
    /\ selectedOption = null
    /\ toast = "info"

\* C25: in every stored TestAttempt the per-question times add up to the time
\* taken (duration*60 minus the remaining seconds), up to one timer tick of one
\* second, whatever navigations, marks and cancelled abandon dialogs came before
\* the submission.
C25_TimesAddUp ==
    \A k \in 1..Len(performanceHistory) :
        LET total == SumSeq(performanceHistory[k].timePerQuestion)
            taken == performanceHistory[k].timeTaken
        IN  total - taken \in -1..1

\* C26: a segment gives a question only if its stem is longer than 5 characters
\* and at least 2 non-empty options were found in its text (stated for the
\* texts of one segment).
C26_TwoOptionsRequired ==
    (/\ toast \in {"success", "error"}
     /\ Len(questionBlocks(Trim(manualText))) = 1
     /\ parsedQuestions # <<>>)
        => /\ Len(parsedQuestions[1].question) > 5
           /\ Len(FindOptions(Trim(manualText), 1, <<>>).options) >= 2

\* C27: in an accepted segment an answer label followed by the letter a, b, c
\* or d (either case) gives answer index 0, 1, 2 or 3, one followed by the digit
\* 1, 2, 3 or 4 gives index 0, 1, 2 or 3, and a segment without an answer label
\* gives index 0.
C27_AnswerIndexFromLabel ==
    toast = "success" =>
        \A c \in LabelledChoices :
            manualText = LabelledText(c[1], c[2], c[3]) =>
                parsedQuestions[1].answer =
                    (IF c[3] = 0 THEN 0 ELSE (c[3] - 1) % 4)

\* C28: after every navigation, Mark for Review and submission, for every
\* question the stored answer is not null exactly when its status is answered
\* or markedAndAnswered.
C28_AnswerIffAnsweredStatus ==
    view \in {"attempt", "report"} =>
        \A i \in 1..Len(questionStatuses) :
            (userAnswers[i] # null)
                <=> (questionStatuses[i] \in {"answered", "markedAndAnswered"})

\* C29: during an attempt a status marked or markedAndAnswered stays marked or
\* markedAndAnswered, a status markedAndAnswered does not change any more, no
\* status goes back to notVisited, and the status of the current question is
\* never notVisited.
C29_MarksAndVisitsKept ==
    [][/\ (view = "attempt" /\ currentTest # nullTest)
           => /\ Len(questionStatuses') = Len(questionStatuses)
              /\ \A i \in 1..Len(questionStatuses) :
                    /\ questionStatuses[i] \in {"marked", "markedAndAnswered"}
                          => questionStatuses'[i] \in {"marked", "markedAndAnswered"}
                    /\ questionStatuses[i] = "markedAndAnswered"
                          => questionStatuses'[i] = "markedAndAnswered"
                    /\ questionStatuses[i] # "notVisited"
                          => questionStatuses'[i] # "notVisited"
       /\ view' = "attempt"
           => questionStatuses'[currentQuestionIndex' + 1] # "notVisited"]_vars

\* the attempt was submitted with question 1 still markedAndAnswered after its
\* answer was cleared, question 2 marked without an answer and question 3
\* visited and left without an answer
C29_Witness ==
    /\ view = "report"
    /\ Len(questionStatuses) >= 3
    /\ questionStatuses[1] = "markedAndAnswered" /\ userAnswers[1] = null
    /\ questionStatuses[2] = "marked"
    /\ questionStatuses[3] = "notAnswered"

====
